---- MODULE Spec2Model ----
(***************************************************************************)
(* onoff.py: the OnOffMixin event registry (on / off / once / trigger).   *)
(*                                                                         *)
(* `_on_off_events` is a dict from event name to a Python list of         *)
(* callback objects (dicts with 'callback', 'times', 'calls').  Callback  *)
(* objects are heap objects: a list holds references to them, so the      *)
(* model keeps a heap `records` and lists of record ids.                  *)
(*                                                                         *)
(* Lists are heap objects too.  on() appends IN PLACE to the list bound   *)
(* to a key; off() builds a NEW list and rebinds the key; a running       *)
(* `for callback_obj in self._on_off_events[event]` keeps the list object *)
(* it started on.  A list is only ever changed through the key it is      *)
(* bound to, so a list that off() has unbound never changes again: a      *)
(* frame either iterates the list bound to its event (live) or owns the   *)
(* frozen list its iterator kept (own).                                   *)
(*                                                                         *)
(* trigger() runs callbacks, which are opaque code: while a callback runs *)
(* it may call on/off/once/trigger on the same registry, and it may       *)
(* raise.  The stack holds one frame per trigger() call whose callback is *)
(* running; the code between two callback invocations is deterministic    *)
(* and runs in one step.                                                  *)
(***************************************************************************)
EXTENDS Integers, Sequences, FiniteSets, TLC

\* ---- bounds of the model ----
MaxOns == 2         \* on() and once() calls in a run
MaxRecs == 3        \* callback objects created in a run
MaxActRecs == 2     \* callback objects created in a run in which callbacks do
                    \* more than return
MaxActs == 1        \* things callbacks do in a run besides returning
                    \* (calls to the registry, exceptions)
MaxPasses == 2      \* dispatch passes a registered callback object goes through
MaxTimes == 2       \* largest `times` passed to on()
MaxNames == 2       \* length of the lists of event names passed to a call

Names == {"a", "b"}
Callbacks == {"f", "g"}
ArgVals == {"x", "y"}

\* `times=None`: compared with a call count (>= 1) it is never equal
None == -1
TimesVals == {None} \cup (1..MaxTimes)

\* the `events` argument: a string or a list of strings.  The code treats all
\* names alike, so the lists tried are the full-length ones
NameLists == [1..MaxNames -> Names]
EventInputs == {[kind |-> "str", s |-> n, l |-> <<>>] : n \in Names}
                 \cup {[kind |-> "list", s |-> "", l |-> l] : l \in NameLists}

VARIABLES
    inited,     \* whether the object has the attribute `_on_off_events`, which
                \* OnOffMixin.__init__ makes
    registry,   \* self._on_off_events: event name -> sequence of record ids
    records,    \* heap of callback objects: id -> [callback, times, calls]
    stack,      \* active trigger() calls, innermost last
    outcome,    \* how the last completed call ended: "ok", "KeyError", "fault"
    hist,       \* history, per callback object: its event, the passes over
                \* that event begun since it was made, its invocations begun,
                \* whether off() was called for its event and callback
    nons,       \* history: number of on() and once() calls
    nacts       \* history: what callbacks did besides returning

vars == <<inited, registry, records, stack, outcome, hist, nons, nacts>>

\* if isinstance(events, str): events = [events]
AsList(ev) == IF ev.kind = "str" THEN <<ev.s>> ELSE ev.l

Range(s) == {s[i] : i \in DOMAIN s}
Count(s, x) == Cardinality({i \in DOMAIN s : s[i] = x})

\* the host may always call; a running callback may while the bounds allow
CanAct == nacts < MaxActs /\ Len(records) <= MaxActRecs
CanCall == stack = <<>> \/ CanAct
Acted == IF stack = <<>> THEN nacts ELSE nacts + 1

\* `self._on_off_events` on an object that has no such attribute raises
\* AttributeError before anything is done
NoAttribute ==
    /\ outcome' = "AttributeError"
    /\ UNCHANGED <<registry, records, stack, hist, nons, nacts>>

\* ---- on ----
\* callback_obj = {'callback': callback, 'times': times, 'calls': 0}
CallbackObj(cb, times) == [callback |-> cb, times |-> times, calls |-> 0]

\* variant of the loop of on(): a callback already in the event's list is not
\* appended again
RECURSIVE OnEventsDedup(_, _, _, _)
OnEventsDedup(st, events, i, obj) ==
    IF i > Len(events) THEN st
    ELSE LET e == events[i]
             r == Len(st.recs) + 1
             old == IF e \in DOMAIN st.reg THEN st.reg[e] ELSE <<>>
         IN IF \E k \in DOMAIN old : st.recs[old[k]].callback = obj.callback
            THEN OnEventsDedup(st, events, i + 1, obj)
            ELSE OnEventsDedup([st EXCEPT !.reg = (e :> Append(old, r)) @@ st.reg,
                                          !.recs = Append(@, obj),
                                          !.hist = Append(@, [event |-> e, passes |-> 0,
                                                              invoked |-> 0,
                                                              offed |-> FALSE])],
                               events, i + 1, obj)

\* variant of the loop of on(): without `.copy()`, the one callback object is
\* appended to the list of every event
RECURSIVE OnEventsShared(_, _, _, _)
OnEventsShared(st, events, i, obj) ==
    IF i > Len(events) THEN st
    ELSE LET e == events[i]
             r == IF i = 1 THEN Len(st.recs) + 1 ELSE Len(st.recs)
             old == IF e \in DOMAIN st.reg THEN st.reg[e] ELSE <<>>
             st1 == [st EXCEPT !.reg = (e :> Append(old, r)) @@ st.reg]
         IN OnEventsShared(IF i = 1
                           THEN [st1 EXCEPT !.recs = Append(@, obj),
                                            !.hist = Append(@, [event |-> e, passes |-> 0,
                                                                invoked |-> 0,
                                                                offed |-> FALSE])]
                           ELSE st1,
                           events, i + 1, obj)

\* variant of the loop of on(): a callback object of the callback that was
\* removed from the event's list is put back instead of the new one
RECURSIVE OnEventsRevive(_, _, _, _)
OnEventsRevive(st, events, i, obj) ==
    IF i > Len(events) THEN st
    ELSE LET e == events[i]
             old == IF e \in DOMAIN st.reg THEN st.reg[e] ELSE <<>>
             gone == {x \in DOMAIN st.recs :
                         /\ st.hist[x].event = e
                         /\ st.recs[x].callback = obj.callback
                         /\ \A k \in DOMAIN old : old[k] # x}
             r == IF gone # {} THEN CHOOSE x \in gone : TRUE
                  ELSE Len(st.recs) + 1
         IN OnEventsRevive([st EXCEPT !.reg = (e :> Append(old, r)) @@ st.reg,
                                      !.recs = Append(@, obj),
                                      !.hist = Append(@, [event |-> e, passes |-> 0,
                                                          invoked |-> 0,
                                                          offed |-> FALSE])],
                           events, i + 1, obj)

\* for event in events:
\*     self._on_off_events.setdefault(event, []).append(callback_obj.copy())
RECURSIVE OnEvents(_, _, _, _)
OnEvents(st, events, i, obj) ==
    IF i > Len(events) THEN st
    ELSE LET e == events[i]
             r == Len(st.recs) + 1
             old == IF e \in DOMAIN st.reg THEN st.reg[e] ELSE <<>>
         IN OnEvents([st EXCEPT !.reg = (e :> Append(old, r)) @@ st.reg,
                                !.recs = Append(@, obj),
                                !.hist = Append(@, [event |-> e, passes |-> 0,
                                                    invoked |-> 0, offed |-> FALSE])],
                     events, i + 1, obj)

On(ev, cb, times) ==
    LET events == AsList(ev)
        st == OnEvents([reg |-> registry, recs |-> records, hist |-> hist],
                       events, 1, CallbackObj(cb, times))
    IN /\ CanCall
       /\ IF inited
          THEN /\ nons < MaxOns
               /\ Len(records) + Len(events) <= MaxRecs
               /\ Acted > 0 => Len(records) + Len(events) <= MaxActRecs
               /\ nons' = nons + 1
               /\ registry' = st.reg
               /\ records' = st.recs
               /\ hist' = st.hist
               /\ outcome' = "ok"
               /\ nacts' = Acted
               /\ UNCHANGED stack
          ELSE NoAttribute
       /\ UNCHANGED inited

\* variant of once(): the subscription has no limit
OnceNoLimit(ev, cb) == On(ev, cb, None)

\* self.on(events, callback, 1)
OnceTimes == 1
Once(ev, cb) == On(ev, cb, OnceTimes)

\* variant of the filter of off(): callback objects without a limit are kept
KeepUnlimited(recs, cb, s) ==
    SelectSeq(s, LAMBDA r : recs[r].callback # cb \/ recs[r].times = None)

\* ---- off ----
\* [callback_obj for callback_obj in self._on_off_events[event]
\*  if callback_obj['callback'] != callback]
Keep(recs, cb, s) == SelectSeq(s, LAMBDA r : recs[r].callback # cb)

\* the list the frame's iterator runs over
IterList(reg, f) == IF f.live THEN reg[f.events[f.ei]] ELSE f.own

\* variant of the rebinding: the running iterators go over to the new list
DetachNot(reg, stk, event) == stk

\* the key is rebound: an iterator running over the old list keeps it
Detach(reg, stk, event) ==
    [i \in DOMAIN stk |->
        IF stk[i].live /\ stk[i].events[stk[i].ei] = event
        THEN [stk[i] EXCEPT !.live = FALSE, !.own = reg[event]]
        ELSE stk[i]]

\* variant of the rebinding: a key whose list becomes empty is deleted
OffOneDrop(st, event, cb) ==
    LET kept == Keep(st.recs, cb, st.reg[event])
    IN [st EXCEPT !.reg = IF kept = <<>>
                          THEN [e \in DOMAIN st.reg \ {event} |-> st.reg[e]]
                          ELSE [st.reg EXCEPT ![event] = kept],
                  !.stk = Detach(st.reg, st.stk, event)]

\* self._on_off_events[event] = [...]
OffOne(st, event, cb) ==
    [st EXCEPT !.reg = [st.reg EXCEPT ![event] = Keep(st.recs, cb, st.reg[event])],
               !.stk = Detach(st.reg, st.stk, event)]

\* variant of the loop of off(): an event without entry is passed over
RECURSIVE OffEventsSkip(_, _, _, _)
OffEventsSkip(st, events, i, cb) ==
    IF i > Len(events) THEN st
    ELSE IF events[i] \notin DOMAIN st.reg
         THEN OffEventsSkip(st, events, i + 1, cb)
         ELSE OffEventsSkip([OffOne(st, events[i], cb)
                                EXCEPT !.done = @ \cup {events[i]}],
                            events, i + 1, cb)

\* variant of the loop of off(): the names are all looked up before any
\* list is rebound
RECURSIVE OffEventsAtomic(_, _, _, _)
OffEventsAtomic(st, events, i, cb) ==
    IF i > Len(events) THEN st
    ELSE IF \E j \in i..Len(events) : events[j] \notin DOMAIN st.reg
         THEN [st EXCEPT !.status = "KeyError"]
         ELSE OffEventsAtomic([OffOne(st, events[i], cb)
                                  EXCEPT !.done = @ \cup {events[i]}],
                              events, i + 1, cb)

\* for event in events: ...; self._on_off_events[event] raises KeyError
RECURSIVE OffEvents(_, _, _, _)
OffEvents(st, events, i, cb) ==
    IF i > Len(events) THEN st
    ELSE IF events[i] \notin DOMAIN st.reg
         THEN [st EXCEPT !.status = "KeyError"]
         ELSE OffEvents([OffOne(st, events[i], cb) EXCEPT !.done = @ \cup {events[i]}],
                        events, i + 1, cb)

Off(ev, cb) ==
    LET events == AsList(ev)
        st == OffEvents([reg |-> registry, recs |-> records, stk |-> stack,
                         status |-> "ok", done |-> {}], events, 1, cb)
    IN /\ CanCall
       /\ IF inited
          THEN /\ registry' = st.reg
               /\ stack' = st.stk
               /\ outcome' = st.status
               /\ hist' = [r \in DOMAIN hist |->
                             IF hist[r].event \in st.done /\ records[r].callback = cb
                             THEN [hist[r] EXCEPT !.offed = TRUE] ELSE hist[r]]
               /\ nacts' = Acted
               /\ UNCHANGED <<records, nons>>
          ELSE NoAttribute
       /\ UNCHANGED inited

\* ---- trigger ----
Finished(f) == f.ei > Len(f.events)

\* variant of the loops of trigger(): an event without entry ends the call
RECURSIVE NextPassStop(_, _)
NextPassStop(reg, f) ==
    IF Finished(f) THEN [f EXCEPT !.idx = 0, !.live = FALSE, !.own = <<>>]
    ELSE LET e == f.events[f.ei]
         IN IF e \notin DOMAIN reg
            THEN [f EXCEPT !.ei = Len(f.events) + 1, !.idx = 0, !.live = FALSE,
                           !.own = <<>>]
            ELSE IF Len(reg[e]) = 0
                 THEN NextPassStop(reg, [f EXCEPT !.ei = @ + 1,
                                                  !.snaps = Append(@, <<>>),
                                                  !.passes = Append(@, f.ei)])
                 ELSE [f EXCEPT !.idx = 1, !.live = TRUE, !.own = <<>>,
                                !.snaps = Append(@, reg[e]),
                                !.passes = Append(@, f.ei)]

\* for event in events:
\*     if event in self._on_off_events:
\*         for callback_obj in self._on_off_events[event]:
\* from event index f.ei on: the first callback object to invoke, if any
RECURSIVE NextPass(_, _)
NextPass(reg, f) ==
    IF Finished(f) THEN [f EXCEPT !.idx = 0, !.live = FALSE, !.own = <<>>]
    ELSE LET e == f.events[f.ei]
         IN IF e \notin DOMAIN reg
            THEN NextPass(reg, [f EXCEPT !.ei = @ + 1])
            ELSE IF Len(reg[e]) = 0
                 THEN NextPass(reg, [f EXCEPT !.ei = @ + 1,
                                              !.snaps = Append(@, <<>>),
                                              !.passes = Append(@, f.ei)])
                 ELSE [f EXCEPT !.idx = 1, !.live = TRUE, !.own = <<>>,
                                !.snaps = Append(@, reg[e]),
                                !.passes = Append(@, f.ei)]

\* variant of the inner loop of trigger(): every other item is passed over
ResumeSkip(reg, f) ==
    IF f.idx + 2 <= Len(IterList(reg, f))
    THEN [f EXCEPT !.idx = @ + 2]
    ELSE NextPass(reg, [f EXCEPT !.ei = @ + 1])

\* the list iterator yields the next item of its list as the list is now;
\* when it is exhausted the outer loop goes to the next event
Resume(reg, f) ==
    IF f.idx + 1 <= Len(IterList(reg, f))
    THEN [f EXCEPT !.idx = @ + 1]
    ELSE NextPass(reg, [f EXCEPT !.ei = @ + 1])

\* the callback object the frame is invoking
Cur(reg, f) == IterList(reg, f)[f.idx]

\* callback_obj['callback'](*args, **kwargs)
CallArgs(f) == f.args

Invoke(reg, f) ==
    [f EXCEPT !.log = Append(@, [ei |-> f.ei, rec |-> Cur(reg, f),
                                  args |-> CallArgs(f)])]

Min(x, y) == IF x <= y THEN x ELSE y

\* history: the passes begun and the invocation started by a step that takes
\* a frame from f0 to f1.  The passes over a callback object's event are
\* counted while it is registered and, for an object with a limit that no
\* off() call named, up to one pass past its limit
Noted(h, recs, reg, f0, f1) ==
    LET new == SubSeq(f1.passes, Len(f0.passes) + 1, Len(f1.passes))
        evs == [i \in DOMAIN new |-> f1.events[new[i]]]
        counted(r) == \/ r \in Range(reg[h[r].event])
                      \/ recs[r].times # None /\ ~h[r].offed
        cap(r) == IF recs[r].times = None THEN MaxPasses ELSE recs[r].times + 1
    IN [r \in DOMAIN h |->
          [h[r] EXCEPT !.passes = IF counted(r)
                                  THEN Min(@ + Count(evs, h[r].event), cap(r))
                                  ELSE @,
                       !.invoked = @ + (IF ~Finished(f1) /\ Cur(reg, f1) = r
                                        THEN 1 ELSE 0)]]

\* the frame of a trigger() call that has not looked at its first event yet.
\* History kept in the frame: log, the invocations made; passes, the indexes
\* of the events found in the registry; snaps, their sequences as found
Frame(events, args) ==
    [events |-> events, args |-> args, ei |-> 1, idx |-> 0, live |-> FALSE,
     own |-> <<>>, log |-> <<>>, passes |-> <<>>, snaps |-> <<>>]

\* trigger() up to its first callback invocation; `ret` is the frame of the
\* call when it has returned
Begin(st, events, args) ==
    LET f0 == Frame(events, args)
        f1 == NextPass(st.reg, f0)
    IN [st EXCEPT !.stk = IF Finished(f1) THEN st.stk
                          ELSE Append(st.stk, Invoke(st.reg, f1)),
                  !.hist = Noted(st.hist, st.recs, st.reg, f0, f1),
                  !.ret = IF Finished(f1) THEN <<f1>> ELSE <<>>]

\* variant of the test of line 157: the limit is reached one call late
LimitReachedLate(rec) == rec.calls = rec.times + 1

\* the running callback returns:
\*     callback_obj['calls'] += 1
\*     if callback_obj['calls'] == callback_obj['times']:
\*         self.off(event, callback_obj['callback'])
\* and the loops go on to the next callback object
LimitReached(rec) == rec.calls = rec.times

Returned(st) ==
    LET n == Len(st.stk)
        f == st.stk[n]
        r == Cur(st.reg, f)
        st1 == [st EXCEPT !.recs[r].calls = @ + 1]
        st2 == IF LimitReached(st1.recs[r])
               THEN OffOne(st1, f.events[f.ei], st1.recs[r].callback)
               ELSE st1
        f1 == Resume(st2.reg, st2.stk[n])
        below == SubSeq(st2.stk, 1, n - 1)
    IN [st2 EXCEPT !.stk = IF Finished(f1) THEN below
                           ELSE Append(below, Invoke(st2.reg, f1)),
                   !.hist = Noted(st2.hist, st2.recs, st2.reg, f, f1),
                   !.ret = IF Finished(f1) THEN <<f1>> ELSE <<>>]

Now == [reg |-> registry, recs |-> records, stk |-> stack, hist |-> hist,
        ret |-> <<>>]

Trigger(ev, args) ==
    LET events == AsList(ev)
        st == Begin(Now, events, args)
    IN /\ CanCall
       /\ IF inited
          THEN /\ \A r \in DOMAIN hist :
                     (r \in Range(registry[hist[r].event]) /\ records[r].times = None)
                        => hist[r].passes + Count(events, hist[r].event) <= MaxPasses
               /\ stack' = st.stk
               /\ hist' = st.hist
               /\ outcome' = IF st.ret # <<>> THEN "ok" ELSE outcome
               /\ nacts' = Acted
               /\ UNCHANGED <<registry, records, nons>>
          ELSE NoAttribute
       /\ UNCHANGED inited

CallbackReturn ==
    /\ stack # <<>>
    /\ LET st == Returned(Now)
       IN /\ registry' = st.reg
          /\ records' = st.recs
          /\ stack' = st.stk
          /\ hist' = st.hist
          /\ outcome' = IF st.ret # <<>> THEN "ok" ELSE outcome
    /\ UNCHANGED <<inited, nons, nacts>>

\* variant of line 155: an exception of the callback is swallowed, and the
\* loops go on with the next callback object without counting the call
CallbackFaultSwallowed ==
    /\ stack # <<>>
    /\ CanAct
    /\ LET n == Len(stack)
           f1 == Resume(registry, stack[n])
           below == SubSeq(stack, 1, n - 1)
       IN /\ stack' = IF Finished(f1) THEN below
                      ELSE Append(below, Invoke(registry, f1))
          /\ hist' = Noted(hist, records, registry, stack[n], f1)
          /\ outcome' = IF Finished(f1) THEN "ok" ELSE outcome
    /\ nacts' = nacts + 1
    /\ UNCHANGED <<inited, registry, records, nons>>

\* variant of lines 155-156: the call is counted although the callback raised
CallbackFaultCounted ==
    /\ stack # <<>>
    /\ CanAct
    /\ records' = [records EXCEPT ![Cur(registry, stack[Len(stack)])].calls = @ + 1]
    /\ stack' = SubSeq(stack, 1, Len(stack) - 1)
    /\ outcome' = "fault"
    /\ nacts' = nacts + 1
    /\ UNCHANGED <<inited, registry, hist, nons>>

\* the running callback raises: line 155 lets the exception out of trigger(),
\* the count is not updated and the loops are abandoned
CallbackFault ==
    /\ stack # <<>>
    /\ CanAct
    /\ stack' = SubSeq(stack, 1, Len(stack) - 1)
    /\ outcome' = "fault"
    /\ nacts' = nacts + 1
    /\ UNCHANGED <<inited, registry, records, hist, nons>>

\* def __init__(self): self._on_off_events = {}
Init ==
    /\ inited = TRUE
    /\ registry = <<>>
    /\ records = <<>>
    /\ stack = <<>>
    /\ outcome = "ok"
    /\ hist = <<>>
    /\ nons = 0
    /\ nacts = 0

\* The code only compares names and callbacks for equality, so runs that
\* differ in which of them comes first show the same behaviour: the first
\* subscription of a run is of callback "f" and starts with name "a"
FirstInputs == {ev \in EventInputs : AsList(ev)[1] = "a"}
OnInputs == IF records = <<>> THEN FirstInputs ELSE EventInputs
OnCallbacks == IF records = <<>> THEN {"f"} ELSE Callbacks

\* the host, or the callback that is running, makes a call; or the running
\* callback ends
Next ==
    \/ \E ev \in OnInputs, cb \in OnCallbacks, t \in TimesVals : On(ev, cb, t)
    \/ \E ev \in EventInputs, cb \in Callbacks : Off(ev, cb)
    \/ \E ev \in OnInputs, cb \in OnCallbacks : Once(ev, cb)
    \/ \E ev \in EventInputs, a \in ArgVals : Trigger(ev, a)
    \/ CallbackReturn
    \/ CallbackFault

Spec == Init /\ [][Next]_vars

\* A host class with a constructor of its own (the module's quick example):
\* the object exists without `_on_off_events` until the host runs
\* OnOffMixin.__init__, if it ever does
InitHost ==
    /\ inited = FALSE
    /\ registry = <<>>
    /\ records = <<>>
    /\ stack = <<>>
    /\ outcome = "ok"
    /\ hist = <<>>
    /\ nons = 0
    /\ nacts = 0

\* def __init__(self): self._on_off_events = {}
Construct ==
    /\ ~inited
    /\ inited' = TRUE
    /\ registry' = <<>>
    /\ outcome' = "ok"
    /\ UNCHANGED <<records, stack, hist, nons, nacts>>

NextHost == Next \/ Construct

SpecHost == InitHost /\ [][NextHost]_vars

TypeOK ==
    /\ DOMAIN registry \subseteq Names
    /\ \A e \in DOMAIN registry : Range(registry[e]) \subseteq DOMAIN records
    /\ Len(records) <= MaxRecs
    /\ Len(hist) = Len(records)
    /\ nacts <= MaxActs

\* ---- what the claims speak about ----
Registered(r) == r \in Range(registry[hist[r].event])
RecsOf(log) == [i \in DOMAIN log |-> log[i].rec]
PassLog(f, j) == SelectSeq(f.log, LAMBDA en : en.ei = j)
Indexes(s) == [i \in DOMAIN s |-> i]
HasCallback(recs, s, cb) == \E i \in DOMAIN s : recs[s[i]].callback = cb

\* the steps of a call, told from the others by what every such call leaves
\* unchanged before the whole action is compared
OnStep(ev, cb, t) == nons' = nons + 1 /\ On(ev, cb, t)
OnceStep(ev, cb) == nons' = nons + 1 /\ Once(ev, cb)
OffStep(ev, cb) == UNCHANGED <<records, nons>> /\ Len(stack') = Len(stack) /\ Off(ev, cb)
TriggerStep(ev, a) ==
    /\ UNCHANGED <<registry, records, nons>>
    /\ Len(stack') >= Len(stack)
    /\ Len(stack') > Len(stack) =>
          /\ stack'[Len(stack')].events = AsList(ev)
          /\ stack'[Len(stack')].args = a
    /\ Trigger(ev, a)

\* a trigger() call by the host whose callbacks only return, run to its end
RECURSIVE Drain(_)
Drain(st) == IF st.stk = <<>> THEN st ELSE Drain(Returned(st))
RunTrigger(st, events, args) ==
    Drain(Begin([st EXCEPT !.stk = <<>>, !.ret = <<>>], events, args))
LogOf(st) == st.ret[1].log

\* C1: a callback subscribed once on a name with limit n, in a run where
\* callbacks only return and off() is not called for it, has been invoked
\* min(n, k) times after k passes over the name; from the n-th pass on no
\* record of the callback is left in the name's sequence
OnlyRecordOf(r) ==
    \A q \in DOMAIN records :
        q # r => ~(hist[q].event = hist[r].event
                   /\ records[q].callback = records[r].callback)
C1_LimitCounting ==
    (nacts = 0 /\ stack = <<>>) =>
        \A r \in DOMAIN records :
            LET e == hist[r].event
                n == records[r].times
                k == hist[r].passes
            IN (n > 0 /\ ~hist[r].offed /\ OnlyRecordOf(r)) =>
                  /\ hist[r].invoked = Min(n, k)
                  /\ k >= n => ~HasCallback(records, registry[e], records[r].callback)
                  /\ k < n => Registered(r)
C1_Witness ==
    /\ nacts = 0 /\ stack = <<>>
    /\ \E r \in DOMAIN records :
          /\ records[r].times = 2 /\ ~hist[r].offed /\ OnlyRecordOf(r)
          /\ hist[r].passes = 3 /\ hist[r].invoked = 2
          /\ Len(registry[hist[r].event]) > 0

\* C2: in a run where callbacks only return, a trigger() call goes through
\* the names it was given in order, skipping those with no entry, invokes in
\* each pass the records of the name's sequence once each in their order,
\* and hands every callback the arguments it was given
FrameOK(f, reg) ==
    /\ f.passes = SelectSeq(Indexes(SubSeq(f.events, 1, Min(f.ei, Len(f.events)))),
                            LAMBDA j : f.events[j] \in DOMAIN reg)
    /\ \A p \in DOMAIN f.passes :
          LET j == f.passes[p]
              got == PassLog(f, j)
          IN /\ RecsOf(got) = (IF j = f.ei THEN SubSeq(f.snaps[p], 1, f.idx)
                               ELSE f.snaps[p])
             /\ \A i \in DOMAIN got : got[i].args = f.args
    /\ \A i \in DOMAIN f.log :
          /\ f.log[i].ei \in Range(f.passes)
          /\ \A i2 \in DOMAIN f.log : i < i2 => f.log[i].ei <= f.log[i2].ei
C2_DispatchOrder ==
    nacts = 0 =>
        /\ \A i \in DOMAIN stack : FrameOK(stack[i], registry)
        /\ stack # <<>> =>
              LET st == Returned(Now)
              IN st.ret # <<>> => FrameOK(st.ret[1], st.reg)
C2_Witness ==
    /\ nacts = 0 /\ Len(stack) = 1
    /\ Len(stack[1].passes) = 2
    /\ Len(PassLog(stack[1], 1)) = 2
    /\ stack[1].ei = 2 /\ stack[1].idx = 2

\* C3: off(names, cb) on known names removes from each name's sequence the
\* records whose callback is cb and nothing else, keeps the order of the
\* rest, changes no callback object and no other name's sequence; a
\* trigger() of a name invokes only records of the name's sequence, so the
\* one that follows does not invoke cb
OffEffect(ev, cb) ==
    LET names == Range(AsList(ev))
    IN /\ DOMAIN registry' = DOMAIN registry
       /\ \A e \in DOMAIN registry :
             registry'[e] = IF e \in names
                            THEN SelectSeq(registry[e],
                                           LAMBDA r : records[r].callback # cb)
                            ELSE registry[e]
       /\ records' = records
InvokesOnlyRegistered ==
    \A e \in DOMAIN registry, a \in ArgVals :
        LET log == LogOf(RunTrigger(Now, <<e>>, a))
        IN \A i \in DOMAIN log : log[i].rec \in Range(registry[e])
C3_OffRemoves ==
    /\ []InvokesOnlyRegistered
    /\ [][\A ev \in EventInputs, cb \in Callbacks :
            (OffStep(ev, cb) /\ outcome' = "ok") => OffEffect(ev, cb)]_vars
C3_Witness ==
    /\ outcome = "ok"
    /\ \E r, q1, q2 \in DOMAIN records :
          /\ hist[r].offed /\ ~Registered(r)
          /\ q1 # r /\ q2 # r /\ q1 < q2
          /\ hist[q1].event = hist[r].event /\ hist[q2].event = hist[r].event
          /\ Registered(q1) /\ Registered(q2)
          /\ records[q1].calls > 0

\* C4: a record leaves its name's sequence only by an off() call with its
\* name and callback, or when its own count reaches its own limit
C4_LeavesOnlyByOffOrOwnLimit ==
    [][\A r \in DOMAIN records :
          (Registered(r) /\ r \notin Range(registry'[hist[r].event])) =>
              \/ \E ev \in EventInputs :
                    /\ OffStep(ev, records[r].callback)
                    /\ hist[r].event \in Range(AsList(ev))
              \/ records'[r].calls = records'[r].times]_vars

\* C5: a record with a limit never has a count above its limit, and no
\* invocation of it begins once its count equals its limit
CountWithinLimit ==
    \A r \in DOMAIN records :
        records[r].times > 0 => records[r].calls <= records[r].times
NotInvokedAtLimit ==
    \A r \in DOMAIN records :
        (records[r].times > 0 /\ hist'[r].invoked > hist[r].invoked) =>
            records'[r].calls < records'[r].times
C5_NeverPastLimit ==
    /\ []CountWithinLimit
    /\ [][NotInvokedAtLimit]_vars

\* C6: on(names, cb, times) succeeds and appends, for each name given, one
\* new record (cb, times, 0) to the end of that name's sequence, creating
\* the entry when there is none; what was there before is unchanged, and a
\* trigger() of a name invokes every record of its sequence, duplicates of
\* a callback included
OnEffect(ev, cb, t) ==
    LET events == AsList(ev)
        n == Len(records)
        occ(e) == SelectSeq(Indexes(events), LAMBDA i : events[i] = e)
        new(e) == [k \in DOMAIN occ(e) |-> n + occ(e)[k]]
    IN /\ outcome' = "ok"
       /\ Len(records') = n + Len(events)
       /\ \A r \in 1..n : records'[r] = records[r]
       /\ \A i \in DOMAIN events :
             records'[n + i] = [callback |-> cb, times |-> t, calls |-> 0]
       /\ DOMAIN registry' = DOMAIN registry \cup Range(events)
       /\ \A e \in DOMAIN registry' :
             registry'[e] = (IF e \in DOMAIN registry THEN registry[e] ELSE <<>>)
                               \o new(e)
InvokesAll ==
    \A e \in DOMAIN registry, a \in ArgVals :
        RecsOf(LogOf(RunTrigger(Now, <<e>>, a))) = registry[e]
C6_OnAppends ==
    /\ []InvokesAll
    /\ [][\A ev \in EventInputs, cb \in Callbacks, t \in TimesVals :
            OnStep(ev, cb, t) => OnEffect(ev, cb, t)]_vars
C6_Witness ==
    \E r, q \in DOMAIN records :
        /\ r < q
        /\ hist[r].event = hist[q].event
        /\ records[r].callback = records[q].callback
        /\ records[r].times = None /\ records[q].times = None
        /\ Registered(r) /\ Registered(q)
        /\ hist[r].invoked = 1 /\ hist[q].invoked = 1
        /\ stack = <<>>

\* C7: once(names, cb) leaves the registry as on(names, cb, 1) does; a
\* callback so subscribed on a name where it was not registered is invoked
\* by the first trigger() of the name, is then no longer registered there,
\* and is not invoked by the second
OneShot ==
    \A e \in DOMAIN registry, cb \in Callbacks, a \in ArgVals :
        LET mine == SelectSeq(registry[e], LAMBDA r : records[r].callback = cb)
        IN (Len(mine) = 1 /\ records[mine[1]].times = 1
                          /\ records[mine[1]].calls = 0) =>
              LET s1 == RunTrigger(Now, <<e>>, a)
                  s2 == RunTrigger(s1, <<e>>, a)
                  cbs(st) == SelectSeq(LogOf(st),
                                       LAMBDA en : st.recs[en.rec].callback = cb)
              IN /\ Len(cbs(s1)) = 1
                 /\ ~HasCallback(s1.recs, s1.reg[e], cb)
                 /\ Len(cbs(s2)) = 0
C7_OnceIsOnWithOne ==
    /\ []OneShot
    /\ [][\A ev \in EventInputs, cb \in Callbacks :
            OnceStep(ev, cb) => OnEffect(ev, cb, 1)]_vars
C7_Witness ==
    /\ stack = <<>> /\ nacts = 0
    /\ \E r \in DOMAIN records :
          /\ records[r].times = 1 /\ records[r].calls = 1
          /\ OnlyRecordOf(r) /\ ~hist[r].offed
          /\ ~Registered(r)
          /\ hist[r].invoked = 1 /\ hist[r].passes = 2

\* C8: trigger() changes no entry of the registry and creates none; when
\* none of the names has an entry it invokes nothing and returns; a name
\* without entry in a list is skipped and the names with an entry are
\* dispatched
TriggerSkips(ev, a) ==
    LET events == AsList(ev)
        known == {j \in DOMAIN events : events[j] \in DOMAIN registry}
        f == RunTrigger(Now, events, a).ret[1]
    IN /\ DOMAIN registry' = DOMAIN registry
       /\ known = {} => /\ UNCHANGED <<registry, records, stack>>
                        /\ outcome' = "ok"
                        /\ \A r \in DOMAIN hist : hist'[r].invoked = hist[r].invoked
       /\ known # DOMAIN events =>
             /\ f.passes = SelectSeq(Indexes(events), LAMBDA j : j \in known)
             /\ \A j \in known :
                   (\A j2 \in DOMAIN events : j2 # j => j2 \notin known)
                      => RecsOf(PassLog(f, j)) = registry[events[j]]
C8_TriggerUnknown ==
    [][\A ev \in EventInputs, a \in ArgVals :
          TriggerStep(ev, a) => TriggerSkips(ev, a)]_vars
C8_Witness ==
    /\ stack # <<>>
    /\ LET f == stack[1]
       IN /\ Len(f.events) = 2
          /\ f.events[1] \notin DOMAIN registry
          /\ f.ei = 2
          /\ Len(f.log) = 1

\* C9: a subscription to several names makes one callback object per name:
\* no callback object is in two sequences or twice in one, and an
\* invocation counts against the object of the name being dispatched only
\* and leaves the sequences of the other names as they are
NoSharing ==
    \A e1, e2 \in DOMAIN registry :
        \A i \in DOMAIN registry[e1], j \in DOMAIN registry[e2] :
            registry[e1][i] = registry[e2][j] => (e1 = e2 /\ i = j)
CountsOwnName ==
    \A r \in DOMAIN records :
        records'[r].calls # records[r].calls =>
            /\ stack # <<>>
            /\ LET f == stack[Len(stack)]
               IN /\ Cur(registry, f) = r
                  /\ f.events[f.ei] = hist[r].event
            /\ records'[r].calls = records[r].calls + 1
            /\ \A e \in DOMAIN registry :
                  e # hist[r].event => registry'[e] = registry[e]
C9_OneRecordPerName ==
    /\ []NoSharing
    /\ [][CountsOwnName]_vars
C9_Witness ==
    /\ stack = <<>>
    /\ \E r \in DOMAIN records :
          /\ r + 1 \in DOMAIN records
          /\ hist[r].event # hist[r + 1].event
          /\ records[r].callback = records[r + 1].callback
          /\ records[r].times = 1 /\ records[r + 1].times = 1
          /\ records[r].calls = 1 /\ ~Registered(r)
          /\ records[r + 1].calls = 0 /\ Registered(r + 1)
          /\ hist[r + 1].invoked = 0

\* C10: off() on a name that has no entry fails with KeyError and changes
\* nothing
C10_OffUnknownFails ==
    [][\A ev \in EventInputs, cb \in Callbacks :
          (OffStep(ev, cb) /\ AsList(ev)[1] \notin DOMAIN registry) =>
              /\ outcome' = "KeyError"
              /\ UNCHANGED <<registry, records, stack>>]_vars
C10_Witness ==
    /\ outcome = "KeyError"
    /\ DOMAIN registry = {}
\* C11: when the running callback raises, the trigger() call ends with the
\* fault, no further callback object is invoked by it, and the counts and
\* removals made before the fault stay as they are
FaultEffect ==
    /\ outcome' = "fault"
    /\ stack' = SubSeq(stack, 1, Len(stack) - 1)
    /\ \A r \in DOMAIN hist : hist'[r].invoked = hist[r].invoked
    /\ records' = records
    /\ registry' = registry
C11_FaultEndsTrigger ==
    [][CallbackFault => FaultEffect]_vars
C11_Witness ==
    /\ outcome = "fault" /\ stack = <<>>
    /\ \E r, q \in DOMAIN records :
          /\ hist[r].event = hist[q].event /\ r < q
          /\ records[r].times = 1 /\ records[r].calls = 1 /\ ~Registered(r)
          /\ hist[q].invoked = 1 /\ records[q].calls = 0 /\ Registered(q)

\* C12: on a host whose constructor does not run OnOffMixin.__init__, on()
\* registers the callback without error
C12_QuickExampleWorks ==
    [][\A ev \in EventInputs, cb \in Callbacks, t \in TimesVals :
          (~inited /\ On(ev, cb, t)) =>
              /\ outcome' = "ok"
              /\ \A e \in Range(AsList(ev)) :
                    /\ e \in DOMAIN registry'
                    /\ HasCallback(records', registry'[e], cb)]_vars



\* C13: whatever callbacks do, the records that were in a name's sequence
\* when its pass began are invoked in that pass once each and in order, the
\* ones removed from the sequence before their turn included; what is
\* invoked after them are other records
IsPrefix(s, t) == Len(s) <= Len(t) /\ SubSeq(t, 1, Len(s)) = s
PassKept(f) ==
    \A p \in DOMAIN f.passes :
        LET j == f.passes[p]
            got == RecsOf(PassLog(f, j))
            snap == f.snaps[p]
        IN /\ j < f.ei => IsPrefix(snap, got)
           /\ \A i \in DOMAIN got :
                 IF i <= Len(snap) THEN got[i] = snap[i]
                 ELSE got[i] \notin Range(snap)
C13_RemovalKeepsPass ==
    /\ \A i \in DOMAIN stack : PassKept(stack[i])
    /\ stack # <<>> =>
          LET st == Returned(Now)
          IN st.ret # <<>> => PassKept(st.ret[1])
C13_Witness ==
    /\ Len(stack) = 1 /\ nacts = 1
    /\ LET f == stack[1]
           r == Cur(registry, f)
       IN /\ ~f.live /\ f.idx = 2
          /\ hist[r].offed /\ ~Registered(r)
          /\ records[r].calls = 0 /\ hist[r].invoked = 1
          /\ records[f.own[1]].calls = 1
          /\ Registered(f.own[1])

\* C14: what a pass invokes are records that were in the name's sequence
\* when the pass began
C14_PassOverSnapshot ==
    \A i \in DOMAIN stack :
        \A p \in DOMAIN stack[i].passes :
            Range(RecsOf(PassLog(stack[i], stack[i].passes[p])))
                \subseteq Range(stack[i].snaps[p])

\* C15: while no callback has called trigger(), a pass makes no more
\* invocations than the name's sequence had records when the pass began
C15_PassBounded ==
    Len(stack) = 1 =>
        \A p \in DOMAIN stack[1].passes :
            Len(PassLog(stack[1], stack[1].passes[p])) <= Len(stack[1].snaps[p])

\* C16: a record that has left its name's sequence never comes back; an
\* on() call for its name and callback makes a new record with count 0 at
\* the end of the sequence, and the callback, then registered once on the
\* name with limit n, is invoked n more times by the next triggers
NeverBack ==
    \A r \in DOMAIN records :
        ~Registered(r) => \A k \in DOMAIN registry'[hist[r].event] :
                              registry'[hist[r].event][k] # r
Removed(e, cb) ==
    {r \in DOMAIN records : /\ hist[r].event = e
                            /\ records[r].callback = cb
                            /\ ~Registered(r)}
NewAtEnd(ev, cb) ==
    \A e \in Range(AsList(ev)) :
        Removed(e, cb) # {} =>
            LET q == registry'[e][Len(registry'[e])]
            IN q > Len(records) /\ records'[q].calls = 0
CallsOf(st, cb) ==
    Len(SelectSeq(LogOf(st), LAMBDA en : st.recs[en.rec].callback = cb))
FreshCount ==
    stack = <<>> =>
        \A e \in DOMAIN registry, cb \in Callbacks, a \in ArgVals :
            LET mine == SelectSeq(registry[e], LAMBDA r : records[r].callback = cb)
            IN (/\ Removed(e, cb) # {}
                /\ Len(mine) = 1
                /\ records[mine[1]].times > 0
                /\ records[mine[1]].calls = 0) =>
                  LET n == records[mine[1]].times
                      s1 == RunTrigger(Now, <<e>>, a)
                      s2 == RunTrigger(s1, <<e>>, a)
                      s3 == RunTrigger(s2, <<e>>, a)
                  IN /\ CallsOf(s1, cb) = 1
                     /\ CallsOf(s2, cb) = (IF n >= 2 THEN 1 ELSE 0)
                     /\ CallsOf(s3, cb) = (IF n >= 3 THEN 1 ELSE 0)
C16_ResubscribeIsNew ==
    /\ []FreshCount
    /\ [][/\ NeverBack
          /\ \A ev \in EventInputs, cb \in Callbacks, t \in TimesVals :
                OnStep(ev, cb, t) => NewAtEnd(ev, cb)]_vars
C16_Witness ==
    /\ stack = <<>> /\ nacts = 0
    /\ \E r, q \in DOMAIN records :
          /\ r < q /\ hist[r].event = hist[q].event
          /\ records[r].callback = records[q].callback
          /\ records[r].times = 1 /\ records[r].calls = 1 /\ ~Registered(r)
          /\ records[q].times = 2 /\ records[q].calls = 2 /\ ~Registered(q)
          /\ hist[q].invoked = 2 /\ hist[q].passes = 3

\* C17: a name that on() was called for stays a key of the registry; off()
\* of a name fails exactly when on() was never called for it, and off() and
\* trigger() of a name whose sequence is empty succeed and change nothing
Subscribed == {hist[r].event : r \in DOMAIN hist}
Str(e) == [kind |-> "str", s |-> e, l |-> <<>>]
OnEmpty(e) == e \in DOMAIN registry /\ registry[e] = <<>>
EmptyName ==
    \A e \in Names :
        /\ \A cb \in Callbacks :
              OffStep(Str(e), cb) =>
                 /\ outcome' = "KeyError" <=> e \notin Subscribed
                 /\ OnEmpty(e) => UNCHANGED <<registry, records, stack>>
        /\ \A a \in ArgVals :
              (OnEmpty(e) /\ TriggerStep(Str(e), a)) =>
                 /\ outcome' = "ok"
                 /\ UNCHANGED <<registry, records, stack>>
C17_KeysStay ==
    /\ [](DOMAIN registry = Subscribed)
    /\ [][DOMAIN registry \subseteq DOMAIN registry' /\ EmptyName]_vars
C17_Witness ==
    /\ stack = <<>> /\ outcome = "ok"
    /\ \E e \in DOMAIN registry :
          /\ registry[e] = <<>>
          /\ \E r, q \in DOMAIN records :
                /\ hist[r].event = e /\ hist[r].offed
                /\ hist[q].event = e /\ ~hist[q].offed
                /\ records[q].calls = records[q].times

\* C18: when the running callback raises, its record's count is not
\* incremented and the record stays where it is
FaultNotCounted ==
    LET r == Cur(registry, stack[Len(stack)])
    IN /\ records'[r] = records[r]
       /\ registry'[hist[r].event] = registry[hist[r].event]
C18_FaultNotCounted ==
    [][CallbackFault => FaultNotCounted]_vars
C18_Witness ==
    /\ Len(stack) = 1 /\ nacts = 1 /\ outcome = "fault"
    /\ LET r == Cur(registry, stack[1])
       IN /\ records[r].times = 1 /\ records[r].calls = 0
          /\ hist[r].invoked = 2
          /\ Registered(r)

\* C19: off() of a list with a name that has no entry fails at that name:
\* the names before it have lost the records of the callback, every other
\* sequence is as it was
OffPartial(ev, cb) ==
    LET events == AsList(ev)
        bad == {i \in DOMAIN events : events[i] \notin DOMAIN registry}
        k == CHOOSE i \in bad : \A j \in bad : i <= j
        before == {events[i] : i \in 1..(k - 1)}
    IN bad # {} =>
          /\ outcome' = "KeyError"
          /\ DOMAIN registry' = DOMAIN registry
          /\ records' = records
          /\ \A e \in DOMAIN registry :
                registry'[e] = IF e \in before
                               THEN SelectSeq(registry[e],
                                              LAMBDA r : records[r].callback # cb)
                               ELSE registry[e]
C19_OffNotAtomic ==
    [][\A ev \in EventInputs, cb \in Callbacks :
          OffStep(ev, cb) => OffPartial(ev, cb)]_vars
C19_Witness ==
    /\ stack = <<>> /\ outcome = "KeyError"
    /\ DOMAIN registry = {"a"}
    /\ \E r \in DOMAIN records :
          /\ hist[r].offed /\ ~Registered(r)
          /\ records[r].times = None
====
